---- MODULE Spec2Model ----
(***************************************************************************)
(* Model of src/index.js (WinDeployDllHelper): the worklist that collects  *)
(* the DLLs an executable needs, copies the missing ones next to it and    *)
(* re-scans every accepted or copied file for further dependencies.        *)
(*                                                                         *)
(* A module name is a tuple of characters, so that INCLUDE_PATTERN is      *)
(* computed from the name as the regular expression computes it.  A path   *)
(* is a pair <<directory, file name>>; the absent path (null) is <<>>.     *)
(* A JavaScript Map is a sequence of <<key, value>> pairs in insertion     *)
(* order.                                                                  *)
(***************************************************************************)
EXTENDS Integers, Sequences, FiniteSets, TLC

\* ------------------------------------------------------------------ bounds

\* Longest dependency list the oracle reports for one file.
MaxDeps == 2

\* The history counters (scans, copies) count up to MaxCount and stay there.
MaxCount == 2

\* Longest answer of the oracle when it may report a module more than once.
MaxReports == 3

\* ------------------------------------------------------- configuration

vtkA == <<"v", "t", "k", "A">>
vtkB == <<"v", "t", "k", "B">>
Qt5 == <<"Q", "t", "5">>

\* Module names the oracle may report.
ModuleNames == {vtkA, vtkB, Qt5}

EXE_NAME == <<"Q", "t", "V", "t", "k", "1">>

EXE_DIR_PATH == "."

EXE_PATH == <<EXE_DIR_PATH, EXE_NAME>>

SEARCH_DIRS == <<"S1", "S2">>

\* Variant of INCLUDE_PATTERN: the filter is left out, every name passes.
INCLUDE_PATTERN_All(moduleName) == Len(moduleName) >= 0

\* Variant of INCLUDE_PATTERN: the pattern tests one character only, /^.t/.
INCLUDE_PATTERN_SecondChar(moduleName) ==
    /\ Len(moduleName) >= 2
    /\ moduleName[2] = "t"

\* /^vtk/.test(moduleName)
INCLUDE_PATTERN(moduleName) ==
    /\ Len(moduleName) >= 3
    /\ moduleName[1] = "v"
    /\ moduleName[2] = "t"
    /\ moduleName[3] = "k"

\* null, the Filepath of a dependency the oracle could not locate.
NoPath == <<>>

\* path.join(dir, name)
PathJoin(dir, name) == <<dir, name>>

\* The file name of a path.
BaseName(p) == p[2]

\* Names of the files the oracle may be asked about.
FileNames == ModuleNames \cup {EXE_NAME}

\* ------------------------------------------------------------------ state

VARIABLES
    oracle,       \* file name -> the dependency entries <<ModuleName, Filepath>>
                  \* Dependencies.exe reports for that file
    searchDirs,   \* index in SEARCH_DIRS -> the file names in that directory
    targetDir,    \* file name -> the path the file in EXE_DIR_PATH came from, or NoPath
    queue,        \* the worklist: a Map from module name to Filepath
    iterPos,      \* position of the for-of iterator in queue
    pc,           \* "seed", "while", "for", "scan", "done", "error"
    moduleName,   \* the key of the pair being processed
    filePath,     \* the value of the pair being processed
    populateFilePath, \* the file the pending scan reads
    pass,         \* number of times the for-of loop was started
    insertedThisPass, \* keys inserted into queue since the for-of loop started
    removed,      \* module names removed from queue so far
    scans,        \* file name -> oracle invocations on that file, failed ones included
    copies,       \* module name -> copies into EXE_DIR_PATH
    lastRead,     \* indices of the search directories read by the last search
    err           \* <<>>, or <<kind, file name>> of the uncaught error

vars == <<oracle, searchDirs, targetDir, queue, iterPos, pc, moduleName, filePath,
          populateFilePath, pass, insertedThisPass, removed, scans, copies,
          lastRead, err>>

NoErr == <<>>

\* ----------------------------------------------------------- Map operations

\* Position of key k in Map m, 0 when m has no such key.
MapIndex(m, k) ==
    IF \E i \in 1..Len(m) : m[i][1] = k
    THEN CHOOSE i \in 1..Len(m) : m[i][1] = k
    ELSE 0

\* m.has(k)
MapHas(m, k) == MapIndex(m, k) # 0

\* Variant of MapSet: the value of a key that is already there is kept.
MapSet_KeepFirst(m, k, v) ==
    IF MapHas(m, k) THEN m ELSE Append(m, <<k, v>>)

\* m.set(k, v): an existing key keeps its position, a new key goes last.
MapSet(m, k, v) ==
    IF MapHas(m, k)
    THEN [m EXCEPT ![MapIndex(m, k)] = <<k, v>>]
    ELSE Append(m, <<k, v>>)

\* m.delete(k)
MapDelete(m, k) ==
    IF MapHas(m, k)
    THEN SubSeq(m, 1, MapIndex(m, k) - 1) \o SubSeq(m, MapIndex(m, k) + 1, Len(m))
    ELSE m

\* Variant of IterAfterDelete: the iterator is an index that a deletion behind
\* it does not move back, so the entry after a deleted one is stepped over.
IterAfterDelete_Stay(m, pos, k) == IF MapHas(m, k) THEN pos ELSE pos

\* The position of a live iterator over m after m.delete(k): the entries
\* behind the iterator that go away do not move it past an unvisited entry.
IterAfterDelete(m, pos, k) ==
    IF MapHas(m, k) /\ MapIndex(m, k) < pos THEN pos - 1 ELSE pos

MapKeys(m) == {m[i][1] : i \in 1..Len(m)}

\* ------------------------------------------------------------------- scan

\* json.Root.Dependencies of the oracle's answer for the file at targetPath.
Dependencies(targetPath) ==
    IF BaseName(targetPath) \in DOMAIN oracle THEN oracle[BaseName(targetPath)] ELSE <<>>

RECURSIVE ScanLoop(_, _, _)
ScanLoop(deps, i, result) ==
    IF i > Len(deps) THEN result
    ELSE ScanLoop(deps, i + 1,
                  IF INCLUDE_PATTERN(deps[i][1])
                  THEN MapSet(result, deps[i][1], deps[i][2])
                  ELSE result)

\* scan(targetPath): the filtered Map from module name to Filepath.
scan(targetPath) == ScanLoop(Dependencies(targetPath), 1, <<>>)

\* Variant of AddChildren: the queue.has test is inverted, so a child that is
\* not yet a key of the worklist is skipped.
RECURSIVE AddChildren_Inverted(_, _, _)
AddChildren_Inverted(q, children, i) ==
    IF i > Len(children) THEN q
    ELSE AddChildren_Inverted(IF ~MapHas(q, children[i][1])
                              THEN q
                              ELSE MapSet(q, children[i][1], children[i][2]),
                              children, i + 1)

\* The children loop: a child whose name is a key of the worklist is skipped.
RECURSIVE AddChildren(_, _, _)
AddChildren(q, children, i) ==
    IF i > Len(children) THEN q
    ELSE AddChildren(IF MapHas(q, children[i][1])
                     THEN q
                     ELSE MapSet(q, children[i][1], children[i][2]),
                     children, i + 1)

\* --------------------------------------------------------- search and copy

\* files.find(f => f === moduleName) in the directory with index i.
FindFile(i, name) == name \in searchDirs[i]

\* Variant of FoundDir: the search loop has no break, the last match wins.
FoundDir_Last(name) ==
    IF \E i \in 1..Len(SEARCH_DIRS) : FindFile(i, name)
    THEN CHOOSE i \in 1..Len(SEARCH_DIRS) :
            /\ FindFile(i, name)
            /\ \A j \in (i + 1)..Len(SEARCH_DIRS) : ~FindFile(j, name)
    ELSE 0

\* Index of the directory the search loop breaks at, 0 when it runs to the end.
FoundDir(name) ==
    IF \E i \in 1..Len(SEARCH_DIRS) : FindFile(i, name)
    THEN CHOOSE i \in 1..Len(SEARCH_DIRS) :
            /\ FindFile(i, name)
            /\ \A j \in 1..(i - 1) : ~FindFile(j, name)
    ELSE 0

\* The directories fs.readdirSync was called on by the search loop.
DirsRead(name) ==
    IF FoundDir(name) = 0 THEN 1..Len(SEARCH_DIRS) ELSE 1..FoundDir(name)

Bump(c) == IF c < MaxCount THEN c + 1 ELSE c

\* ------------------------------------------------------------------- Init

\* Dependency lists of at most MaxDeps distinct names.  No file is reported
\* as a dependency of itself; files may depend on each other.
NameLists ==
    {s \in UNION {[1..k -> ModuleNames] : k \in 0..MaxDeps} :
        \A i, j \in 1..Len(s) : i # j => s[i] # s[j]}

\* The Filepath the oracle reports for a module: next to the executable when
\* the module is already there, null otherwise.
Filepath(present, name) ==
    IF name \in present THEN PathJoin(EXE_DIR_PATH, name) ELSE NoPath

Init ==
    /\ \E present \in SUBSET {vtkA, vtkB} :
         /\ \E g \in [FileNames \ {Qt5} -> NameLists] :
              /\ \A f \in DOMAIN g : \A i \in 1..Len(g[f]) : g[f][i] # f
              /\ oracle = [f \in DOMAIN g |->
                             [i \in 1..Len(g[f]) |-> <<g[f][i], Filepath(present, g[f][i])>>]]
         /\ targetDir = [n \in ModuleNames |-> Filepath(present, n)]
    /\ searchDirs \in [1..Len(SEARCH_DIRS) -> SUBSET {vtkA, vtkB}]
    /\ queue = <<>>
    /\ iterPos = 1
    /\ pc = "seed"
    /\ moduleName = <<>>
    /\ filePath = NoPath
    /\ populateFilePath = NoPath
    /\ pass = 0
    /\ insertedThisPass = {}
    /\ removed = {}
    /\ scans = [f \in FileNames |-> 0]
    /\ copies = [n \in ModuleNames |-> 0]
    /\ lastRead = {}
    /\ err = NoErr

\* ---------------------------------------------------------------- actions

\* let queue = scan(EXE_PATH)
Seed ==
    /\ pc = "seed"
    /\ queue' = scan(EXE_PATH)
    /\ scans' = [scans EXCEPT ![EXE_NAME] = Bump(@)]
    /\ pc' = "while"
    /\ UNCHANGED <<oracle, searchDirs, targetDir, iterPos, moduleName, filePath,
                   populateFilePath, pass, insertedThisPass, removed, copies,
                   lastRead, err>>

\* Variant of OracleFail: the failure is recorded and the invocation is made again.
OracleFail_Retry ==
    /\ pc \in {"seed", "scan"}
    /\ LET target == IF pc = "seed" THEN EXE_PATH ELSE populateFilePath IN
         /\ scans' = [scans EXCEPT ![BaseName(target)] = Bump(@)]
         /\ err' = <<"oracle", BaseName(target)>>
    /\ UNCHANGED <<oracle, searchDirs, targetDir, queue, iterPos, pc, moduleName, filePath,
                   populateFilePath, pass, insertedThisPass, removed, copies, lastRead>>

\* childProcess.execSync or JSON.parse throws inside scan: nothing catches it.
OracleFail ==
    /\ pc \in {"seed", "scan"}
    /\ LET target == IF pc = "seed" THEN EXE_PATH ELSE populateFilePath IN
         /\ scans' = [scans EXCEPT ![BaseName(target)] = Bump(@)]
         /\ err' = <<"oracle", BaseName(target)>>
    /\ pc' = "error"
    /\ UNCHANGED <<oracle, searchDirs, targetDir, queue, iterPos, moduleName, filePath,
                   populateFilePath, pass, insertedThisPass, removed, copies, lastRead>>

\* while (queue.size), entering the for-of loop with a fresh iterator.
WhileEnter ==
    /\ pc = "while"
    /\ Len(queue) > 0
    /\ iterPos' = 1
    /\ pass' = pass + 1
    /\ insertedThisPass' = {}
    /\ pc' = "for"
    /\ UNCHANGED <<oracle, searchDirs, targetDir, queue, moduleName, filePath,
                   populateFilePath, removed, scans, copies, lastRead, err>>

\* while (queue.size) with an empty worklist: the script runs to its end.
WhileExit ==
    /\ pc = "while"
    /\ Len(queue) = 0
    /\ pc' = "done"
    /\ UNCHANGED <<oracle, searchDirs, targetDir, queue, iterPos, moduleName, filePath,
                   populateFilePath, pass, insertedThisPass, removed, scans, copies,
                   lastRead, err>>

\* Variant of IterDone: the loop iterates over a snapshot taken when it started,
\* so it ends at the first entry appended since.
IterDone_Snapshot ==
    IF iterPos > Len(queue) THEN TRUE ELSE queue[iterPos][1] \in insertedThisPass

\* The live iterator of for (const pair of queue) is exhausted: it has passed
\* every entry of the Map, those appended since the loop started included.
IterDone == iterPos > Len(queue)

\* The iterator of the for-of loop has no entry left.
ForExit ==
    /\ pc = "for"
    /\ IterDone
    /\ pc' = "while"
    /\ UNCHANGED <<oracle, searchDirs, targetDir, queue, iterPos, moduleName, filePath,
                   populateFilePath, pass, insertedThisPass, removed, scans, copies,
                   lastRead, err>>

\* Variant of TakeResolved: a module that has a Filepath is copied from the
\* search directories all the same when one of them holds it.
TakeResolved_Copy ==
    /\ pc = "for"
    /\ ~IterDone
    /\ LET pair == queue[iterPos] IN
         /\ pair[2] # NoPath
         /\ moduleName' = pair[1]
         /\ filePath' = pair[2]
         /\ queue' = MapDelete(queue, pair[1])
         /\ iterPos' = IterAfterDelete(queue, iterPos + 1, pair[1])
         /\ removed' = removed \cup {pair[1]}
         /\ populateFilePath' = pair[2]
         /\ IF FoundDir(pair[1]) # 0
            THEN /\ targetDir' = [targetDir EXCEPT ![pair[1]] =
                                     PathJoin(SEARCH_DIRS[FoundDir(pair[1])], pair[1])]
                 /\ copies' = [copies EXCEPT ![pair[1]] = Bump(@)]
            ELSE UNCHANGED <<targetDir, copies>>
    /\ pc' = "scan"
    /\ UNCHANGED <<oracle, searchDirs, pass, insertedThisPass, scans, lastRead, err>>

\* The next pair has a Filepath: it is deleted and its file is the one to scan.
TakeResolved ==
    /\ pc = "for"
    /\ ~IterDone
    /\ LET pair == queue[iterPos] IN
         /\ pair[2] # NoPath
         /\ moduleName' = pair[1]
         /\ filePath' = pair[2]
         /\ queue' = MapDelete(queue, pair[1])
         /\ iterPos' = IterAfterDelete(queue, iterPos + 1, pair[1])
         /\ removed' = removed \cup {pair[1]}
         /\ populateFilePath' = pair[2]
    /\ pc' = "scan"
    /\ UNCHANGED <<oracle, searchDirs, targetDir, pass, insertedThisPass, scans, copies,
                   lastRead, err>>

\* Variant of TakeCopy: the copy is skipped when a file of that name is
\* already next to the executable.
TakeCopy_SkipExisting ==
    /\ pc = "for"
    /\ ~IterDone
    /\ LET pair == queue[iterPos] IN
         /\ pair[2] = NoPath
         /\ FoundDir(pair[1]) # 0
         /\ moduleName' = pair[1]
         /\ filePath' = pair[2]
         /\ lastRead' = DirsRead(pair[1])
         /\ IF targetDir[pair[1]] = NoPath
            THEN /\ targetDir' = [targetDir EXCEPT ![pair[1]] =
                                     PathJoin(SEARCH_DIRS[FoundDir(pair[1])], pair[1])]
                 /\ copies' = [copies EXCEPT ![pair[1]] = Bump(@)]
            ELSE UNCHANGED <<targetDir, copies>>
         /\ queue' = MapDelete(queue, pair[1])
         /\ iterPos' = IterAfterDelete(queue, iterPos + 1, pair[1])
         /\ removed' = removed \cup {pair[1]}
         /\ populateFilePath' = PathJoin(EXE_DIR_PATH, pair[1])
    /\ pc' = "scan"
    /\ UNCHANGED <<oracle, searchDirs, pass, insertedThisPass, scans, err>>

\* Variant of TakeCopy: the file handed to the scan is the one found in the
\* search directory, not the copy next to the executable.
TakeCopy_ScanSource ==
    /\ pc = "for"
    /\ ~IterDone
    /\ LET pair == queue[iterPos] IN
         /\ pair[2] = NoPath
         /\ FoundDir(pair[1]) # 0
         /\ moduleName' = pair[1]
         /\ filePath' = pair[2]
         /\ lastRead' = DirsRead(pair[1])
         /\ targetDir' = [targetDir EXCEPT ![pair[1]] =
                             PathJoin(SEARCH_DIRS[FoundDir(pair[1])], pair[1])]
         /\ copies' = [copies EXCEPT ![pair[1]] = Bump(@)]
         /\ queue' = MapDelete(queue, pair[1])
         /\ iterPos' = IterAfterDelete(queue, iterPos + 1, pair[1])
         /\ removed' = removed \cup {pair[1]}
         /\ populateFilePath' = PathJoin(SEARCH_DIRS[FoundDir(pair[1])], pair[1])
    /\ pc' = "scan"
    /\ UNCHANGED <<oracle, searchDirs, pass, insertedThisPass, scans, err>>

\* The next pair has no Filepath and a search directory holds the file: it is
\* copied next to the executable, the pair is deleted, the copy is the file to scan.
TakeCopy ==
    /\ pc = "for"
    /\ ~IterDone
    /\ LET pair == queue[iterPos] IN
         /\ pair[2] = NoPath
         /\ FoundDir(pair[1]) # 0
         /\ moduleName' = pair[1]
         /\ filePath' = pair[2]
         /\ lastRead' = DirsRead(pair[1])
         /\ targetDir' = [targetDir EXCEPT ![pair[1]] =
                             PathJoin(SEARCH_DIRS[FoundDir(pair[1])], pair[1])]
         /\ copies' = [copies EXCEPT ![pair[1]] = Bump(@)]
         /\ queue' = MapDelete(queue, pair[1])
         /\ iterPos' = IterAfterDelete(queue, iterPos + 1, pair[1])
         /\ removed' = removed \cup {pair[1]}
         /\ populateFilePath' = PathJoin(EXE_DIR_PATH, pair[1])
    /\ pc' = "scan"
    /\ UNCHANGED <<oracle, searchDirs, pass, insertedThisPass, scans, err>>

\* Variant of TakeUnresolved: the missing module is recorded and the loop goes on.
TakeUnresolved_Continue ==
    /\ pc = "for"
    /\ ~IterDone
    /\ LET pair == queue[iterPos] IN
         /\ pair[2] = NoPath
         /\ FoundDir(pair[1]) = 0
         /\ moduleName' = pair[1]
         /\ filePath' = pair[2]
         /\ lastRead' = DirsRead(pair[1])
         /\ err' = <<"unresolved", pair[1]>>
         /\ queue' = MapDelete(queue, pair[1])
         /\ iterPos' = IterAfterDelete(queue, iterPos + 1, pair[1])
         /\ removed' = removed \cup {pair[1]}
    /\ pc' = "for"
    /\ UNCHANGED <<oracle, searchDirs, targetDir, populateFilePath, pass,
                   insertedThisPass, scans, copies>>

\* Variant of TakeUnresolved: the files copied so far are deleted before the throw.
TakeUnresolved_Rollback ==
    /\ pc = "for"
    /\ ~IterDone
    /\ LET pair == queue[iterPos] IN
         /\ pair[2] = NoPath
         /\ FoundDir(pair[1]) = 0
         /\ moduleName' = pair[1]
         /\ filePath' = pair[2]
         /\ lastRead' = DirsRead(pair[1])
         /\ err' = <<"unresolved", pair[1]>>
    /\ targetDir' = [n \in ModuleNames |-> IF copies[n] > 0 THEN NoPath ELSE targetDir[n]]
    /\ iterPos' = iterPos + 1
    /\ pc' = "error"
    /\ UNCHANGED <<oracle, searchDirs, queue, populateFilePath, pass,
                   insertedThisPass, removed, scans, copies>>

\* The next pair has no Filepath and no search directory holds the file:
\* throw new Error('Can not find ' + moduleName).
TakeUnresolved ==
    /\ pc = "for"
    /\ ~IterDone
    /\ LET pair == queue[iterPos] IN
         /\ pair[2] = NoPath
         /\ FoundDir(pair[1]) = 0
         /\ moduleName' = pair[1]
         /\ filePath' = pair[2]
         /\ lastRead' = DirsRead(pair[1])
         /\ err' = <<"unresolved", pair[1]>>
    /\ iterPos' = iterPos + 1
    /\ pc' = "error"
    /\ UNCHANGED <<oracle, searchDirs, targetDir, queue, populateFilePath, pass,
                   insertedThisPass, removed, scans, copies>>

\* const children = scan(populateFilePath), then the children loop.
Rescan ==
    /\ pc = "scan"
    /\ LET children == scan(populateFilePath) IN
         /\ queue' = AddChildren(queue, children, 1)
         /\ insertedThisPass' = insertedThisPass \cup (MapKeys(children) \ MapKeys(queue))
    /\ scans' = [scans EXCEPT ![BaseName(populateFilePath)] = Bump(@)]
    /\ pc' = "for"
    /\ UNCHANGED <<oracle, searchDirs, targetDir, iterPos, moduleName, filePath,
                   populateFilePath, pass, removed, copies, lastRead, err>>

Next ==
    \/ Seed
    \/ OracleFail
    \/ WhileEnter
    \/ WhileExit
    \/ ForExit
    \/ TakeResolved
    \/ TakeCopy
    \/ TakeUnresolved
    \/ Rescan

Spec == Init /\ [][Next]_vars

\* Answers of the oracle for one file in which a module may be reported more
\* than once, each time with or without a Filepath.
ReportLists ==
    UNION {[1..k -> {<<n, p>> : n \in ModuleNames, p \in {NoPath}} \cup
                     {<<n, PathJoin(EXE_DIR_PATH, n)>> : n \in ModuleNames}]
             : k \in 0..MaxReports}

\* The run on an executable whose oracle answer is any list of ReportLists; the
\* DLLs themselves have no dependencies.
InitScan ==
    /\ \E deps \in ReportLists :
         /\ oracle = [f \in FileNames \ {Qt5} |-> IF f = EXE_NAME THEN deps ELSE <<>>]
         /\ targetDir = [n \in ModuleNames |->
                           IF \E i \in 1..Len(deps) : deps[i] = <<n, PathJoin(EXE_DIR_PATH, n)>>
                           THEN PathJoin(EXE_DIR_PATH, n) ELSE NoPath]
    /\ searchDirs \in [1..Len(SEARCH_DIRS) -> SUBSET {vtkA, vtkB}]
    /\ queue = <<>>
    /\ iterPos = 1
    /\ pc = "seed"
    /\ moduleName = <<>>
    /\ filePath = NoPath
    /\ populateFilePath = NoPath
    /\ pass = 0
    /\ insertedThisPass = {}
    /\ removed = {}
    /\ scans = [f \in FileNames |-> 0]
    /\ copies = [n \in ModuleNames |-> 0]
    /\ lastRead = {}
    /\ err = NoErr

SpecScan == InitScan /\ [][Next]_vars

\* The script is one thread of control: whenever a step is possible it is taken.
FairSpec == Spec /\ WF_vars(Next)

\* ------------------------------------------------ the dependency closure

\* The inclusion pattern as the specification states it: the name starts with "vtk".
StartsWithVtk(n) == Len(n) >= 3 /\ SubSeq(n, 1, 3) = <<"v", "t", "k">>

\* The module names the oracle reports for file f that satisfy the pattern.
FilteredDeps(f) ==
    IF f \in DOMAIN oracle
    THEN {oracle[f][i][1] : i \in 1..Len(oracle[f])} \cap {n \in ModuleNames : StartsWithVtk(n)}
    ELSE {}

RECURSIVE ReachFrom(_)
ReachFrom(S) ==
    LET T == S \cup UNION {FilteredDeps(f) : f \in S}
    IN  IF T = S THEN S ELSE ReachFrom(T)

\* The filtered transitive closure of the root executable's dependencies.
Closure == ReachFrom(FilteredDeps(EXE_NAME))

\* Some file reports module n with a Filepath / without one.
ReportedResolved(n) ==
    \E f \in DOMAIN oracle : \E i \in 1..Len(oracle[f]) :
        oracle[f][i][1] = n /\ oracle[f][i][2] # NoPath

ReportedAbsent(n) ==
    \E f \in DOMAIN oracle : \E i \in 1..Len(oracle[f]) :
        oracle[f][i][1] = n /\ oracle[f][i][2] = NoPath

\* Every absent module of the closure is in some search directory.
AllFindable ==
    \A n \in Closure : ReportedAbsent(n) => \E i \in 1..Len(SEARCH_DIRS) : n \in searchDirs[i]

ErrKind == IF err = NoErr THEN "none" ELSE err[1]

RECURSIVE SumScans(_)
SumScans(S) ==
    IF S = {} THEN 0
    ELSE LET n == CHOOSE x \in S : TRUE IN scans[n] + SumScans(S \ {n})

\* ------------------------------------------------------------------ claims

\* C1 (termination): when every absent module of the closure is in some search
\* directory, the run reaches the empty worklist and stops, whatever the shape
\* of the dependency graph, cyclic graphs included (an oracle failure, which
\* the claim does not cover, also ends the run).
C1_Termination == AllFindable => <>(pc = "done" \/ ErrKind = "oracle")

\* C2 (scan once): the oracle is invoked at most once on the file of every
\* module name, and in a run that completes the invocations other than the
\* seed scan are one per module name of the closure.
C2_ScanOnce ==
    /\ \A n \in ModuleNames : scans[n] <= 1
    /\ pc = "done" =>
         /\ \A n \in Closure : scans[n] = 1
         /\ SumScans(ModuleNames) = Cardinality(Closure)

\* C3 (no self-reintroduction): a module name that was removed from the
\* worklist and is not in it is not inserted into it by any later step.
C3_NoReintroduction ==
    [][\A n \in removed : ~MapHas(queue, n) => ~MapHas(queue', n)]_vars
\* C4 (closure completeness): when the run ends with an empty worklist, every
\* module name of the closure was taken from the worklist and scanned, and it
\* was reported with a Filepath or its file was copied next to the executable.
C4_ClosureComplete ==
    pc = "done" =>
        /\ queue = <<>>
        /\ \A n \in Closure :
             /\ n \in removed
             /\ scans[n] >= 1
             /\ \/ ReportedResolved(n)
                \/ /\ copies[n] >= 1
                   /\ \E i \in 1..Len(SEARCH_DIRS) : targetDir[n] = <<SEARCH_DIRS[i], n>>

C4_Witness ==
    /\ pc = "done"
    /\ Closure = {vtkA, vtkB}
    /\ FilteredDeps(EXE_NAME) = {vtkA}
    /\ ReportedResolved(vtkA)
    /\ copies[vtkB] = 1

\* C5 (copy correctness): the file copied for an absent module comes from the
\* first search directory, in configured order, that holds a file of exactly
\* that name; the search reads the directories up to that one and no further,
\* and no copied file comes from a directory without such a file.
C5_CopyFromFirstMatch ==
    /\ (pc = "scan" /\ filePath = NoPath) =>
          \E i \in 1..Len(SEARCH_DIRS) :
              /\ moduleName \in searchDirs[i]
              /\ \A j \in 1..(i - 1) : moduleName \notin searchDirs[j]
              /\ targetDir[moduleName] = <<SEARCH_DIRS[i], moduleName>>
              /\ lastRead = 1..i
    /\ \A n \in ModuleNames :
          copies[n] > 0 =>
              \E i \in 1..Len(SEARCH_DIRS) :
                  n \in searchDirs[i] /\ targetDir[n] = <<SEARCH_DIRS[i], n>>

C5_Witness ==
    /\ pc = "scan"
    /\ filePath = NoPath
    /\ moduleName = vtkA
    /\ searchDirs[1] = {vtkA, vtkB}
    /\ searchDirs[2] = {vtkA}
    /\ targetDir[vtkA] = <<SEARCH_DIRS[1], vtkA>>

\* C6 (filter correctness): every key of the worklist satisfies the inclusion
\* pattern, and a module whose name fails the pattern is never copied, never
\* scanned and never named in an unresolved-dependency error.
C6_FilterCorrect ==
    /\ \A k \in MapKeys(queue) : StartsWithVtk(k)
    /\ \A n \in ModuleNames :
          ~StartsWithVtk(n) =>
              /\ copies[n] = 0
              /\ scans[n] = 0
              /\ targetDir[n] = NoPath
              /\ n \notin removed
              /\ (ErrKind = "unresolved" => err[2] # n)

C6_Witness ==
    /\ pc = "done"
    /\ oracle[EXE_NAME] = <<<<Qt5, NoPath>>, <<vtkA, NoPath>>>>
    /\ oracle[vtkA] = <<<<Qt5, NoPath>>>>
    /\ copies[vtkA] = 1

NotInSearchDirs(n) == \A i \in 1..Len(SEARCH_DIRS) : n \notin searchDirs[i]

\* C7 (unresolved dependency halts the run): processing an entry with an
\* absent path whose name is in no search directory puts the run in an error
\* state that names the module; no file is copied for it, and from then on no
\* entry is removed, copied or scanned.
C7_UnresolvedHalts ==
    /\ [](ErrKind = "unresolved" =>
            /\ pc = "error"
            /\ err[2] = moduleName
            /\ filePath = NoPath
            /\ NotInSearchDirs(moduleName)
            /\ MapHas(queue, moduleName)
            /\ copies[moduleName] = 0
            /\ targetDir[moduleName] = NoPath)
    /\ [][(pc = "for" /\ ~IterDone /\ queue[iterPos][2] = NoPath
             /\ NotInSearchDirs(queue[iterPos][1]))
          => (err' = <<"unresolved", queue[iterPos][1]>> /\ pc' = "error")]_vars
    /\ [][ErrKind = "unresolved" =>
             UNCHANGED <<queue, targetDir, removed, scans, copies, pc>>]_vars

C7_Witness ==
    /\ ErrKind = "unresolved"
    /\ err[2] = vtkB
    /\ Len(queue) = 2
    /\ queue[1][1] = vtkB
    /\ queue[2][1] = vtkA
    /\ vtkA \in searchDirs[1]
    /\ scans[vtkA] = 0
    /\ copies[vtkA] = 0

\* C8 (no rollback on failure): when the run aborts on an unresolved module,
\* the abort changes nothing in the target directory, and every file copied
\* before it is still there.
C8_NoRollback ==
    /\ [](ErrKind = "unresolved" =>
            \A n \in ModuleNames :
                copies[n] > 0 =>
                    \E i \in 1..Len(SEARCH_DIRS) : targetDir[n] = <<SEARCH_DIRS[i], n>>)
    /\ [][ErrKind' = "unresolved" => targetDir' = targetDir]_vars

C8_Witness ==
    /\ ErrKind = "unresolved"
    /\ err[2] = vtkB
    /\ copies[vtkA] = 1
    /\ targetDir[vtkA] = <<SEARCH_DIRS[2], vtkA>>

\* C9 (oracle failure aborts the run): a failed oracle invocation, of the seed
\* scan or of a re-scan, puts the run in an error state; the invocation is not
\* made again and nothing is copied, removed or scanned afterwards.
C9_OracleFailureAborts ==
    /\ [](ErrKind = "oracle" => pc = "error" /\ scans[err[2]] >= 1)
    /\ [][ErrKind = "oracle" =>
             UNCHANGED <<queue, targetDir, removed, scans, copies, pc>>]_vars

C9_Witness ==
    /\ ErrKind = "oracle"
    /\ err[2] = vtkA
    /\ scans[vtkA] = 1
    /\ MapHas(queue, vtkB)

\* C10 as stated (snapshot per pass): an entry taken from the worklist was not
\* inserted during the pass that takes it.
C10_SnapshotPerPass ==
    pc = "scan" => moduleName \notin insertedThisPass

\* C10 as amended (live iteration): the for-of loop also visits the entries
\* inserted while it runs, so it ends only on an empty worklist and the outer
\* loop never starts a second pass.
C10_LivePass ==
    /\ pass <= 1
    /\ (pc = "while" /\ pass = 1) => queue = <<>>
    /\ pc = "done" => \A n \in insertedThisPass : scans[n] >= 1

C10_Witness ==
    /\ pc = "done"
    /\ pass = 1
    /\ vtkB \in insertedThisPass
    /\ vtkB \notin FilteredDeps(EXE_NAME)
    /\ scans[vtkB] = 1
\* No module of the closure depends, directly or through others, on itself.
Acyclic == \A n \in Closure : n \notin ReachFrom(FilteredDeps(n))

RECURSIVE ChainFrom(_, _)
\* Length of the longest dependency chain that starts at file f, followed for
\* at most fuel links.
ChainFrom(f, fuel) ==
    IF fuel = 0 \/ FilteredDeps(f) = {} THEN 0
    ELSE LET below == {ChainFrom(c, fuel - 1) : c \in FilteredDeps(f)}
         IN  1 + (CHOOSE d \in below : \A e \in below : e <= d)

\* Depth of the filtered dependency graph below the root executable.
Depth == ChainFrom(EXE_NAME, Cardinality(ModuleNames))

\* C11 (pass bound): on an acyclic filtered graph whose absent modules can all
\* be found, the outer loop starts at most as many passes as the graph is deep.
C11_PassBound == (Acyclic /\ AllFindable) => pass <= Depth

C11_Witness ==
    /\ pc = "done"
    /\ Acyclic
    /\ AllFindable
    /\ Depth = 2
    /\ pass = 1
    /\ scans[vtkA] = 1
    /\ scans[vtkB] = 1
\* The file the oracle is invoked on by a step taken at the seed or at a scan.
ScanTarget == IF pc = "seed" THEN EXE_PATH ELSE populateFilePath

\* C12 (remove, then copy, then scan): an entry taken from the worklist is
\* removed from it before its scan; an entry without a path was copied before
\* the scan and the scan reads the copy next to the executable, an entry with
\* a path is scanned at that path; each taking is followed by one oracle
\* invocation on that file and the oracle is invoked at no other time.
C12_RemoveCopyScan ==
    /\ [](pc = "scan" =>
            /\ moduleName \in removed
            /\ ~MapHas(queue, moduleName)
            /\ (filePath = NoPath =>
                  /\ populateFilePath = <<EXE_DIR_PATH, moduleName>>
                  /\ copies[moduleName] >= 1
                  /\ targetDir[moduleName] # NoPath)
            /\ (filePath # NoPath => populateFilePath = filePath))
    /\ [][(pc = "for" /\ pc' = "scan") =>
             /\ queue[iterPos] = <<moduleName', filePath'>>
             /\ MapHas(queue, moduleName')
             /\ ~MapHas(queue', moduleName')]_vars
    /\ [][pc = "scan" =>
             /\ pc' \in {"for", "error"}
             /\ scans' = [scans EXCEPT ![BaseName(populateFilePath)] = Bump(@)]]_vars
    /\ [][scans' # scans =>
             /\ pc \in {"seed", "scan"}
             /\ scans' = [scans EXCEPT ![BaseName(ScanTarget)] = Bump(@)]]_vars

C12_Witness ==
    /\ pc = "scan"
    /\ filePath = NoPath
    /\ moduleName = vtkB
    /\ populateFilePath = <<EXE_DIR_PATH, vtkB>>
    /\ targetDir[vtkB] = <<SEARCH_DIRS[1], vtkB>>
    /\ oracle[EXE_NAME] = <<<<vtkA, <<EXE_DIR_PATH, vtkA>>>>, <<vtkB, NoPath>>>>
    /\ scans[vtkA] = 1
\* C13 (writes are confined to the target directory): the search directories
\* never change; a file next to the executable changes, or is copied, only in
\* the step that takes a worklist record of that name without a path, and it
\* then comes from a search directory under the module's name; an oracle
\* invocation changes no file, and taking a record with a path copies nothing.
C13_WritesConfined ==
    /\ [][searchDirs' = searchDirs]_vars
    /\ [][\A n \in ModuleNames :
             (targetDir'[n] # targetDir[n] \/ copies'[n] # copies[n]) =>
                 /\ pc = "for"
                 /\ ~IterDone
                 /\ queue[iterPos] = <<n, NoPath>>
                 /\ \E i \in 1..Len(SEARCH_DIRS) : targetDir'[n] = <<SEARCH_DIRS[i], n>>]_vars
    /\ [][(pc = "seed" \/ pc = "scan") => UNCHANGED <<targetDir, copies>>]_vars
    /\ [][(pc = "for" /\ ~IterDone /\ queue[iterPos][2] # NoPath) =>
             UNCHANGED <<targetDir, copies>>]_vars

C13_Witness ==
    /\ pc = "done"
    /\ copies[vtkA] = 1
    /\ targetDir[vtkA] = <<SEARCH_DIRS[2], vtkA>>
    /\ ReportedResolved(vtkB)
    /\ scans[vtkB] = 1
    /\ vtkB \in searchDirs[1]
    /\ copies[vtkB] = 0
    /\ targetDir[vtkB] = <<EXE_DIR_PATH, vtkB>>
\* C14 (copy always): taking a record without a path whose name is in a search
\* directory performs the copy, also when a file of that name is already next
\* to the executable.
C14_CopyAlways ==
    [][(pc = "for" /\ ~IterDone /\ queue[iterPos][2] = NoPath
          /\ ~NotInSearchDirs(queue[iterPos][1]))
       => /\ pc' = "scan"
          /\ copies'[queue[iterPos][1]] = Bump(copies[queue[iterPos][1]])
          /\ \E i \in 1..Len(SEARCH_DIRS) :
                targetDir'[queue[iterPos][1]] = <<SEARCH_DIRS[i], queue[iterPos][1]>>]_vars

\* A copy was made over a file that an earlier copy had put there.
C14_Witness ==
    /\ pc = "scan"
    /\ filePath = NoPath
    /\ moduleName = vtkB
    /\ copies[vtkB] = 2
    /\ targetDir[vtkB] = <<SEARCH_DIRS[1], vtkB>>
\* Index of the last report of module n in the list deps.
LastReport(deps, n) ==
    CHOOSE i \in 1..Len(deps) :
        deps[i][1] = n /\ \A j \in (i + 1)..Len(deps) : deps[j][1] # n

\* C15 (scan returns a mapping): the result of scan has one entry for each
\* distinct reported module name that satisfies the inclusion pattern and no
\* other entry, and the value of a name is the Filepath of its last report.
C15_ScanIsMapping ==
    (pc = "while" /\ pass = 0) =>
        LET deps == oracle[EXE_NAME] IN
            /\ \A i, j \in 1..Len(queue) : i # j => queue[i][1] # queue[j][1]
            /\ MapKeys(queue) =
                 {n \in {deps[i][1] : i \in 1..Len(deps)} : StartsWithVtk(n)}
            /\ \A k \in 1..Len(queue) :
                 queue[k][2] = deps[LastReport(deps, queue[k][1])][2]

C15_Witness ==
    /\ pc = "while"
    /\ pass = 0
    /\ oracle[EXE_NAME] = <<<<vtkA, NoPath>>, <<Qt5, NoPath>>, <<vtkA, <<EXE_DIR_PATH, vtkA>>>>>>
    /\ queue = <<<<vtkA, <<EXE_DIR_PATH, vtkA>>>>>>
\* C16 (no spurious work): every module name in the worklist, every scanned
\* module and every copied module belongs to the filtered transitive closure
\* of the root executable.
C16_NoSpuriousWork ==
    /\ MapKeys(queue) \subseteq Closure
    /\ removed \subseteq Closure
    /\ \A n \in ModuleNames : (scans[n] > 0 \/ copies[n] > 0) => n \in Closure
    /\ \A n \in ModuleNames : targetDir[n] # NoPath /\ ReportedAbsent(n) => n \in Closure

C16_Witness ==
    /\ pc = "done"
    /\ Closure = {vtkA}
    /\ copies[vtkA] = 1
    /\ oracle[vtkB] = <<<<vtkA, NoPath>>>>
    /\ vtkB \in searchDirs[1]
    /\ scans[vtkB] = 0
    /\ copies[vtkB] = 0
    /\ targetDir[vtkB] = NoPath

\* C17 (copy at most once): with the oracle's answers fixed for the run, no
\* module name is copied next to the executable more than once.
C17_CopyAtMostOnce == \A n \in ModuleNames : copies[n] <= 1

====
